---- MODULE Spec2Model ----
(***************************************************************************)
(* Model of generate.py, the static site generator of a single-service,    *)
(* multi-city site: the slug encoder, the title/description clamp, the     *)
(* page factory and the build driver main().                               *)
(*                                                                         *)
(* Texts are TLA+ strings, read character by character with SubSeq.  An    *)
(* HTML document is the sequence of its elements in document order.        *)
(***************************************************************************)
EXTENDS Integers, Sequences, FiniteSets, TLC

VARIABLES
  pc,            \* position of main(): the step it executes next
  i,             \* index of the roster entry the city loop writes next
  roster,        \* the module-level list CITIES that main() iterates
  outExists,     \* whether the output directory exists
  fs,            \* files under the output directory: relative path -> content
  imagePresent,  \* whether picture.png sits next to generate.py
  run,           \* number of the run of main() over this output directory
  prevOut,       \* the files the run before this one left when it finished
  text,          \* argument of the pure function under test
  maxc,          \* max_chars argument of clamp_title
  result         \* <<>> before the call, <<value>> once it returned

vars == <<pc, i, roster, outExists, fs, imagePresent, run, prevOut, text, maxc, result>>

buildVars == <<pc, i, roster, outExists, fs, imagePresent, run, prevOut>>

runVars == <<run, prevOut>>

fnVars == <<text, maxc, result>>

-----------------------------------------------------------------------------
(* CONFIG and the content tables                                           *)

cta_text == "Get Free Estimate"

cta_href == "mailto:hello@example.com?subject=Free%20Quote%20Request"

image_filename == "picture.png"

cost_low == 150

cost_high == 450

BRAND_NAME == "Woodpecker Damage Repair Company"

H1_TITLE == "Woodpecker Damage Repair/Wood Siding & EIFS Services"

COST_TITLE == "Woodpecker Damage Repair Cost"

HOWTO_TITLE == "How to Repair Woodpecker Damage"

TITLE_MAX == 70

DESCRIPTION_MAX == 155

CITIES ==
  << <<"New York", "NY">>,
     <<"Los Angeles", "CA">>,
     <<"Chicago", "IL">>,
     <<"Dallas", "TX">>,
     <<"Fort Worth", "TX">>,
     <<"Philadelphia", "PA">>,
     <<"Houston", "TX">>,
     <<"Atlanta", "GA">>,
     <<"Washington", "DC">>,
     <<"Hagerstown", "MD">>,
     <<"Boston", "MA">>,
     <<"Manchester", "NH">>,
     <<"San Francisco", "CA">>,
     <<"Oakland", "CA">>,
     <<"San Jose", "CA">>,
     <<"Tampa", "FL">>,
     <<"St. Petersburg", "FL">>,
     <<"Sarasota", "FL">>,
     <<"Phoenix", "AZ">>,
     <<"Prescott", "AZ">>,
     <<"Seattle", "WA">>,
     <<"Tacoma", "WA">>,
     <<"Detroit", "MI">>,
     <<"Orlando", "FL">>,
     <<"Daytona Beach", "FL">>,
     <<"Melbourne", "FL">>,
     <<"Minneapolis", "MN">>,
     <<"St. Paul", "MN">>,
     <<"Denver", "CO">>,
     <<"Miami", "FL">>,
     <<"Fort Lauderdale", "FL">>,
     <<"Cleveland", "OH">>,
     <<"Akron", "OH">>,
     <<"Canton", "OH">>,
     <<"Sacramento", "CA">>,
     <<"Stockton", "CA">>,
     <<"Modesto", "CA">>,
     <<"Charlotte", "NC">>,
     <<"Raleigh", "NC">>,
     <<"Durham", "NC">>,
     <<"Fayetteville", "NC">>,
     <<"Portland", "OR">>,
     <<"St. Louis", "MO">>,
     <<"Indianapolis", "IN">>,
     <<"Nashville", "TN">>,
     <<"Pittsburgh", "PA">>,
     <<"Salt Lake City", "UT">>,
     <<"Baltimore", "MD">>,
     <<"San Diego", "CA">>,
     <<"San Antonio", "TX">>,
     <<"Hartford", "CT">>,
     <<"New Haven", "CT">>,
     <<"Kansas City", "MO">>,
     <<"Austin", "TX">>,
     <<"Columbus", "OH">>,
     <<"Greenville", "SC">>,
     <<"Spartanburg", "SC">>,
     <<"Asheville", "NC">>,
     <<"Anderson", "SC">>,
     <<"Cincinnati", "OH">>,
     <<"Milwaukee", "WI">>,
     <<"West Palm Beach", "FL">>,
     <<"Fort Pierce", "FL">>,
     <<"Las Vegas", "NV">>,
     <<"Jacksonville", "FL">>,
     <<"Harrisburg", "PA">>,
     <<"Lancaster", "PA">>,
     <<"Lebanon", "PA">>,
     <<"York", "PA">>,
     <<"Grand Rapids", "MI">>,
     <<"Kalamazoo", "MI">>,
     <<"Battle Creek", "MI">>,
     <<"Norfolk", "VA">>,
     <<"Portsmouth", "VA">>,
     <<"Newport News", "VA">>,
     <<"Birmingham", "AL">>,
     <<"Anniston", "AL">>,
     <<"Tuscaloosa", "AL">>,
     <<"Greensboro", "NC">>,
     <<"High Point", "NC">>,
     <<"Winston-Salem", "NC">>,
     <<"Oklahoma City", "OK">>,
     <<"Albuquerque", "NM">>,
     <<"Santa Fe", "NM">>,
     <<"Louisville", "KY">>,
     <<"New Orleans", "LA">>,
     <<"Memphis", "TN">>,
     <<"Providence", "RI">>,
     <<"New Bedford", "MA">>,
     <<"Fort Myers", "FL">>,
     <<"Naples", "FL">>,
     <<"Buffalo", "NY">>,
     <<"Fresno", "CA">>,
     <<"Visalia", "CA">>,
     <<"Richmond", "VA">>,
     <<"Petersburg", "VA">>,
     <<"Mobile", "AL">>,
     <<"Pensacola", "FL">>,
     <<"Fort Walton Beach", "FL">>,
     <<"Little Rock", "AR">>,
     <<"Pine Bluff", "AR">>,
     <<"Wilkes-Barre", "PA">>,
     <<"Scranton", "PA">>,
     <<"Hazleton", "PA">>,
     <<"Knoxville", "TN">>,
     <<"Tulsa", "OK">>,
     <<"Albany", "NY">>,
     <<"Schenectady", "NY">>,
     <<"Troy", "NY">>,
     <<"Lexington", "KY">>,
     <<"Dayton", "OH">>,
     <<"Tucson", "AZ">>,
     <<"Sierra Vista", "AZ">>,
     <<"Spokane", "WA">>,
     <<"Des Moines", "IA">>,
     <<"Ames", "IA">>,
     <<"Green Bay", "WI">>,
     <<"Appleton", "WI">>,
     <<"Honolulu", "HI">>,
     <<"Roanoke", "VA">>,
     <<"Lynchburg", "VA">>,
     <<"Wichita", "KS">>,
     <<"Hutchinson", "KS">>,
     <<"Flint", "MI">>,
     <<"Saginaw", "MI">>,
     <<"Bay City", "MI">>,
     <<"Omaha", "NE">>,
     <<"Springfield", "MO">>,
     <<"Huntsville", "AL">>,
     <<"Decatur", "AL">>,
     <<"Florence", "AL">>,
     <<"Columbia", "SC">>,
     <<"Madison", "WI">>,
     <<"Portland", "ME">>,
     <<"Auburn", "ME">>,
     <<"Rochester", "NY">>,
     <<"Harlingen", "TX">>,
     <<"Weslaco", "TX">>,
     <<"Brownsville", "TX">>,
     <<"McAllen", "TX">>,
     <<"Toledo", "OH">>,
     <<"Charleston", "WV">>,
     <<"Huntington", "WV">>,
     <<"Waco", "TX">>,
     <<"Temple", "TX">>,
     <<"Bryan", "TX">>,
     <<"Savannah", "GA">>,
     <<"Charleston", "SC">>,
     <<"Chattanooga", "TN">>,
     <<"Colorado Springs", "CO">>,
     <<"Pueblo", "CO">>,
     <<"Syracuse", "NY">>,
     <<"El Paso", "TX">>,
     <<"Las Cruces", "NM">>,
     <<"Paducah", "KY">>,
     <<"Cape Girardeau", "MO">>,
     <<"Harrisburg", "IL">>,
     <<"Shreveport", "LA">>,
     <<"Texarkana", "TX">>,
     <<"Champaign", "IL">>,
     <<"Urbana", "IL">>,
     <<"Springfield", "IL">>,
     <<"Decatur", "IL">>,
     <<"Burlington", "VT">>,
     <<"Plattsburgh", "NY">>,
     <<"Cedar Rapids", "IA">>,
     <<"Waterloo", "IA">>,
     <<"Iowa City", "IA">>,
     <<"Dubuque", "IA">>,
     <<"Baton Rouge", "LA">>,
     <<"Fort Smith", "AR">>,
     <<"Fayetteville", "AR">>,
     <<"Springdale", "AR">>,
     <<"Rogers", "AR">>,
     <<"Myrtle Beach", "SC">>,
     <<"Florence", "SC">>,
     <<"Boise", "ID">>,
     <<"Jackson", "MS">>,
     <<"South Bend", "IN">>,
     <<"Elkhart", "IN">>,
     <<"Johnson City", "TN">>,
     <<"Kingsport", "TN">>,
     <<"Bristol", "VA">>,
     <<"Greenville", "NC">>,
     <<"New Bern", "NC">>,
     <<"Washington", "NC">>,
     <<"Reno", "NV">>,
     <<"Davenport", "IA">>,
     <<"Rock Island", "IL">>,
     <<"Moline", "IL">>,
     <<"Tallahassee", "FL">>,
     <<"Thomasville", "GA">>,
     <<"Tyler", "TX">>,
     <<"Longview", "TX">>,
     <<"Lufkin", "TX">>,
     <<"Nacogdoches", "TX">>,
     <<"Lincoln", "NE">>,
     <<"Hastings", "NE">>,
     <<"Kearney", "NE">>,
     <<"Augusta", "GA">>,
     <<"Aiken", "SC">>,
     <<"Evansville", "IN">>,
     <<"Fort Wayne", "IN">>,
     <<"Sioux Falls", "SD">>,
     <<"Mitchell", "SD">>,
     <<"Johnstown", "PA">>,
     <<"Altoona", "PA">>,
     <<"State College", "PA">>,
     <<"Fargo", "ND">>,
     <<"Valley City", "ND">>,
     <<"Yakima", "WA">>,
     <<"Pasco", "WA">>,
     <<"Richland", "WA">>,
     <<"Kennewick", "WA">>,
     <<"Springfield", "MA">>,
     <<"Holyoke", "MA">>,
     <<"Traverse City", "MI">>,
     <<"Cadillac", "MI">>,
     <<"Lansing", "MI">>,
     <<"Youngstown", "OH">>,
     <<"Macon", "GA">>,
     <<"Eugene", "OR">>,
     <<"Montgomery", "AL">>,
     <<"Selma", "AL">>,
     <<"Peoria", "IL">>,
     <<"Bloomington", "IL">>,
     <<"Santa Barbara", "CA">>,
     <<"Santa Maria", "CA">>,
     <<"San Luis Obispo", "CA">>,
     <<"Lafayette", "LA">>,
     <<"Bakersfield", "CA">>,
     <<"Wilmington", "NC">>,
     <<"Columbus", "GA">>,
     <<"Monterey", "CA">>,
     <<"Salinas", "CA">>,
     <<"La Crosse", "WI">>,
     <<"Eau Claire", "WI">>,
     <<"Corpus Christi", "TX">>,
     <<"Salisbury", "MD">>,
     <<"Amarillo", "TX">>,
     <<"Wausau", "WI">>,
     <<"Rhinelander", "WI">>,
     <<"Columbus", "MS">>,
     <<"Tupelo", "MS">>,
     <<"West Point", "MS">>,
     <<"Starkville", "MS">>,
     <<"Columbia", "MO">>,
     <<"Jefferson City", "MO">>,
     <<"Chico", "CA">>,
     <<"Redding", "CA">>,
     <<"Rockford", "IL">>,
     <<"Duluth", "MN">>,
     <<"Superior", "WI">>,
     <<"Medford", "OR">>,
     <<"Klamath Falls", "OR">>,
     <<"Lubbock", "TX">>,
     <<"Topeka", "KS">>,
     <<"Monroe", "LA">>,
     <<"El Dorado", "AR">>,
     <<"Beaumont", "TX">>,
     <<"Port Arthur", "TX">>,
     <<"Odessa", "TX">>,
     <<"Midland", "TX">>,
     <<"Palm Springs", "CA">>,
     <<"Anchorage", "AK">>,
     <<"Minot", "ND">>,
     <<"Bismarck", "ND">>,
     <<"Dickinson", "ND">>,
     <<"Williston", "ND">>,
     <<"Panama City", "FL">>,
     <<"Sioux City", "IA">>,
     <<"Wichita Falls", "TX">>,
     <<"Lawton", "OK">>,
     <<"Joplin", "MO">>,
     <<"Pittsburg", "KS">>,
     <<"Albany", "GA">>,
     <<"Rochester", "MN">>,
     <<"Mason City", "IA">>,
     <<"Austin", "MN">>,
     <<"Erie", "PA">>,
     <<"Idaho Falls", "ID">>,
     <<"Pocatello", "ID">>,
     <<"Jackson", "WY">>,
     <<"Bangor", "ME">>,
     <<"Gainesville", "FL">>,
     <<"Biloxi", "MS">>,
     <<"Gulfport", "MS">>,
     <<"Terre Haute", "IN">>,
     <<"Sherman", "TX">>,
     <<"Ada", "OK">>,
     <<"Missoula", "MT">>,
     <<"Binghamton", "NY">>,
     <<"Wheeling", "WV">>,
     <<"Steubenville", "OH">>,
     <<"Yuma", "AZ">>,
     <<"El Centro", "CA">>,
     <<"Billings", "MT">>,
     <<"Abilene", "TX">>,
     <<"Sweetwater", "TX">>,
     <<"Bluefield", "WV">>,
     <<"Beckley", "WV">>,
     <<"Oak Hill", "WV">>,
     <<"Hattiesburg", "MS">>,
     <<"Laurel", "MS">>,
     <<"Rapid City", "SD">>,
     <<"Dothan", "AL">>,
     <<"Utica", "NY">>,
     <<"Clarksburg", "WV">>,
     <<"Weston", "WV">>,
     <<"Harrisonburg", "VA">>,
     <<"Jackson", "TN">>,
     <<"Quincy", "IL">>,
     <<"Hannibal", "MO">>,
     <<"Keokuk", "IA">>,
     <<"Charlottesville", "VA">>,
     <<"Lake Charles", "LA">>,
     <<"Elmira", "NY">>,
     <<"Corning", "NY">>,
     <<"Watertown", "NY">>,
     <<"Bowling Green", "KY">>,
     <<"Marquette", "MI">>,
     <<"Jonesboro", "AR">>,
     <<"Alexandria", "LA">>,
     <<"Laredo", "TX">>,
     <<"Butte", "MT">>,
     <<"Bozeman", "MT">>,
     <<"Bend", "OR">>,
     <<"Grand Junction", "CO">>,
     <<"Montrose", "CO">>,
     <<"Twin Falls", "ID">>,
     <<"Lafayette", "IN">>,
     <<"Lima", "OH">>,
     <<"Great Falls", "MT">>,
     <<"Meridian", "MS">>,
     <<"Cheyenne", "WY">>,
     <<"Scottsbluff", "NE">>,
     <<"Parkersburg", "WV">>,
     <<"Greenwood", "MS">>,
     <<"Greenville", "MS">>,
     <<"Eureka", "CA">>,
     <<"San Angelo", "TX">>,
     <<"Casper", "WY">>,
     <<"Riverton", "WY">>,
     <<"Mankato", "MN">>,
     <<"Ottumwa", "IA">>,
     <<"Kirksville", "MO">>,
     <<"St. Joseph", "MO">>,
     <<"Fairbanks", "AK">>,
     <<"Zanesville", "OH">>,
     <<"Victoria", "TX">>,
     <<"Helena", "MT">>,
     <<"Presque Isle", "ME">>,
     <<"Juneau", "AK">>,
     <<"Alpena", "MI">>,
     <<"North Platte", "NE">>,
     <<"Glendive", "MT">> >>

H2_SHARED ==
  << "What Is Woodpecker Damage to Houses?",
     "Why Woodpeckers Peck on Houses",
     "Common Types of Woodpecker Damage",
     "Woodpecker Holes in Wood and Cedar Siding",
     "Woodpecker Damage to EIFS and Stucco",
     "Professional Woodpecker Damage Repair vs DIY",
     "When to Hire a Woodpecker Damage Repair Service" >>

P_SHARED ==
  << "Woodpecker damage occurs when woodpeckers peck, drill, or create holes in the exterior of a house. This damage commonly affects wood siding, cedar siding, EIFS, and stucco surfaces. Over time, repeated pecking can expose the structure to moisture intrusion and further deterioration.",
     "Woodpeckers peck on houses for several reasons, including searching for insects, creating nesting cavities, or establishing territory. Soft siding materials and hollow-sounding surfaces often attract repeated pecking behavior.",
     "Common types of woodpecker damage include small round holes, larger nesting cavities, clustered peck marks, and surface chipping. Left unaddressed, these openings allow water, pests, and air infiltration.",
     "Woodpecker holes in wood and cedar siding are especially common because these materials are softer and more attractive to birds. Repairing cedar siding requires proper filling, sealing, and color-matching to restore both appearance and protection.",
     "EIFS and stucco are also frequent targets for woodpeckers. Damage to these systems often involves punctures or cavities that require specialized EIFS patching and sealing techniques to prevent moisture damage.",
     "DIY woodpecker hole repair may seem straightforward, but improper filling or sealing can trap moisture or fail to stop repeat damage. Professional repair focuses on restoring the surface correctly while addressing underlying vulnerabilities.",
     "Hiring a professional is recommended when damage affects siding integrity, involves EIFS or stucco systems, or when repeated woodpecker activity continues despite temporary fixes." >>

H2_HOWTO ==
  << "Can You Repair Woodpecker Damage Yourself?",
     "How to Fix Woodpecker Holes in a House",
     "How to Repair Woodpecker Holes in Wood Siding",
     "How to Repair Woodpecker Damage in Cedar Siding",
     "How to Repair Woodpecker Damage in EIFS or Stucco",
     "Common Mistakes When Repairing Woodpecker Holes",
     "When DIY Woodpecker Damage Repair Is Not Recommended" >>

P_HOWTO ==
  << "Minor woodpecker damage can sometimes be repaired by homeowners, but success depends on the siding type and extent of the damage. Improper repairs may fail to stop repeat pecking or allow moisture intrusion. For widespread or recurring damage, professional {woodpecker damage repair services} are often the safer option.",
     "Fixing woodpecker holes in a house typically involves cleaning the damaged area, filling holes with appropriate exterior-grade filler, sanding the surface smooth, sealing the repair, and repainting or finishing to match the surrounding siding.",
     "Repairing woodpecker holes in wood siding requires using fillers designed for exterior wood, followed by proper sealing and paint. Skipping these steps can lead to rot or visible patching.",
     "Cedar siding repairs must be handled carefully to preserve the wood grain and appearance. Improper filling or painting can make repairs stand out and reduce siding durability.",
     "EIFS and stucco repairs involve specialized patch materials and sealing techniques. Incorrect repairs can compromise the moisture barrier and lead to costly structural issues.",
     "Common DIY mistakes include using interior fillers, failing to seal repairs properly, mismatching paint, and ignoring the cause of the woodpecker activity. These errors often result in repeat damage.",
     "DIY repair is not recommended when damage is extensive, affects EIFS or stucco systems, or when woodpeckers continue pecking after repairs. In these cases, contacting a provider that offers {woodpecker damage repair services} is the safest next step." >>

H2_COST ==
  << "How Much Does Woodpecker Damage Repair Cost?",
     "What Affects the Cost of Woodpecker Damage Repair?",
     "Cost to Repair Woodpecker Holes in Siding",
     "Woodpecker Damage Repair Cost for EIFS and Stucco",
     "Does Insurance Cover Woodpecker Damage?",
     "When Professional Woodpecker Damage Repair Is Worth the Cost" >>

P_COST ==
  << "Woodpecker damage repair typically costs between $200 and $1,500, depending on the number of holes, siding type, and extent of damage. Many homeowners compare DIY repairs against professional {woodpecker damage repair services} before deciding.",
     "Repair costs are influenced by siding material, size and quantity of holes, accessibility, height of the repair area, and whether moisture damage is present behind the siding.",
     "Repairing woodpecker holes in wood or cedar siding generally costs less than repairing EIFS or stucco, which require specialized materials and techniques.",
     "EIFS and stucco repairs are often more expensive due to moisture barrier considerations and the need for precise patching to prevent future damage.",
     "Insurance coverage for woodpecker damage varies by policy. Some homeowners insurance plans may cover damage if it is sudden and accidental, while others consider it maintenance-related. Policy review is recommended.",
     "Professional repair is worth the cost when damage affects structural integrity, involves EIFS systems, or when repeat woodpecker activity continues. In these cases, professional {woodpecker damage repair services} provide long-term protection and peace of mind." >>

-----------------------------------------------------------------------------
(* Characters and strings                                                  *)

\* U+2026, the one-character ellipsis clamp_title appends.  The TLA+ lexer
\* takes ASCII only, so the character is written "~", which occurs in no
\* text of the program.
ELLIPSIS == "~"

CharAt(s, k) == SubSeq(s, k, k)

\* The characters str.strip() and str.rstrip() remove when called without
\* an argument.
Whitespace == {" ", "\t", "\n", "\r", "\f"}

UpperLetters == "ABCDEFGHIJKLMNOPQRSTUVWXYZ"

LowerLetters == "abcdefghijklmnopqrstuvwxyz"

Digits == "0123456789"

\* The character class [a-z0-9].
SlugChars ==
  {CharAt(LowerLetters, k) : k \in 1..Len(LowerLetters)}
  \cup {CharAt(Digits, k) : k \in 1..Len(Digits)}

IsSlugChar(c) == c \in SlugChars

\* str.lower() on one character.
LowerChar(c) ==
  IF \E k \in 1..Len(UpperLetters) : CharAt(UpperLetters, k) = c
    THEN CharAt(LowerLetters, CHOOSE k \in 1..Len(UpperLetters) : CharAt(UpperLetters, k) = c)
    ELSE c

\* The concatenation of pieces[lo], ..., pieces[hi], halving the range so
\* that the evaluation stays shallow on long texts.
RECURSIVE ConcatRange(_, _, _)
ConcatRange(pieces, lo, hi) ==
  IF lo > hi THEN ""
  ELSE IF lo = hi THEN pieces[lo]
  ELSE LET mid == (lo + hi) \div 2
       IN  ConcatRange(pieces, lo, mid) \o ConcatRange(pieces, mid + 1, hi)

ConcatAll(pieces) == ConcatRange(pieces, 1, Len(pieces))

lower(s) == ConcatAll([k \in 1..Len(s) |-> LowerChar(CharAt(s, k))])

\* Python's s[:n]: a negative n counts from the end of the string.
SlicePrefix(s, n) ==
  IF n >= 0
    THEN SubSeq(s, 1, IF n < Len(s) THEN n ELSE Len(s))
    ELSE SubSeq(s, 1, IF Len(s) + n > 0 THEN Len(s) + n ELSE 0)

\* str.rstrip(chars) and str.lstrip(chars), chars given as a set.
RECURSIVE RStripLen(_, _, _)
RStripLen(s, n, chars) ==
  IF n > 0 /\ CharAt(s, n) \in chars THEN RStripLen(s, n - 1, chars) ELSE n

RECURSIVE LStripPos(_, _, _)
LStripPos(s, k, chars) ==
  IF k <= Len(s) /\ CharAt(s, k) \in chars THEN LStripPos(s, k + 1, chars) ELSE k

rstripChars(s, chars) == SubSeq(s, 1, RStripLen(s, Len(s), chars))

lstripChars(s, chars) == SubSeq(s, LStripPos(s, 1, chars), Len(s))

stripChars(s, chars) == lstripChars(rstripChars(s, chars), chars)

rstrip(s) == rstripChars(s, Whitespace)

strip(s) == stripChars(s, Whitespace)

\* re.sub(r"&", " and ", s)
SubAmp(s) ==
  ConcatAll([k \in 1..Len(s) |-> IF CharAt(s, k) = "&" THEN " and " ELSE CharAt(s, k)])

SubAmpUnspaced(s) ==
  ConcatAll([k \in 1..Len(s) |-> IF CharAt(s, k) = "&" THEN "and" ELSE CharAt(s, k)])

\* re.sub(r"[^a-z0-9]+", "-", s): the first character of a run of
\* characters outside [a-z0-9] becomes the hyphen, the rest of the run goes.
SubNonSlug(s) ==
  ConcatAll([k \in 1..Len(s) |->
    IF IsSlugChar(CharAt(s, k)) THEN CharAt(s, k)
    ELSE IF k > 1 /\ ~IsSlugChar(CharAt(s, k - 1)) THEN ""
    ELSE "-"])

\* re.sub(r"-{2,}", "-", s): a run of two or more hyphens becomes one.
SubHyphens(s) ==
  ConcatAll([k \in 1..Len(s) |->
    IF CharAt(s, k) = "-" /\ k > 1 /\ CharAt(s, k - 1) = "-" THEN "" ELSE CharAt(s, k)])

-----------------------------------------------------------------------------
(* HELPERS                                                                 *)

\* html.escape(s, quote=True) on one character.
EscChar(c) ==
  CASE c = "&"  -> "&amp;"
    [] c = "<"  -> "&lt;"
    [] c = ">"  -> "&gt;"
    [] c = "\"" -> "&quot;"
    [] c = "'"  -> "&#x27;"
    [] OTHER    -> c

esc(s) == ConcatAll([k \in 1..Len(s) |-> EscChar(CharAt(s, k))])

\* slugify replacing "&" by "and" without the surrounding spaces.
slugify_and_unspaced(s) ==
  LET s1 == lower(strip(s))
      s2 == SubAmpUnspaced(s1)
      s3 == SubNonSlug(s2)
      s4 == stripChars(SubHyphens(s3), {"-"})
  IN  s4

\* slugify without the call of lower().
slugify_no_lower(s) ==
  LET s1 == strip(s)
      s2 == SubAmp(s1)
      s3 == SubNonSlug(s2)
      s4 == stripChars(SubHyphens(s3), {"-"})
  IN  s4

slugify(s) ==
  LET s1 == lower(strip(s))
      s2 == SubAmp(s1)
      s3 == SubNonSlug(s2)
      s4 == stripChars(SubHyphens(s3), {"-"})
  IN  s4

\* city_state_slug leaving the state out.
city_state_slug_city_only(city, state) == slugify(city)

city_state_slug(city, state) == slugify(city) \o "-" \o slugify(state)

\* clamp_title comparing with < instead of <=: a title exactly at the limit
\* is truncated.
clamp_title_strict(title, max_chars) ==
  IF Len(title) < max_chars
    THEN title
    ELSE rstrip(SlicePrefix(title, max_chars - 1)) \o ELLIPSIS

\* clamp_title slicing title[:max_chars]: the ellipsis comes on top of
\* max_chars characters.
clamp_title_keeps_max(title, max_chars) ==
  IF Len(title) <= max_chars
    THEN title
    ELSE rstrip(SlicePrefix(title, max_chars)) \o ELLIPSIS

clamp_title(title, max_chars) ==
  IF Len(title) <= max_chars
    THEN title
    ELSE rstrip(SlicePrefix(title, max_chars - 1)) \o ELLIPSIS

\* A city title that leaves the state out.
city_h1_no_state(service, city, state) ==
  clamp_title(service \o " in " \o city, TITLE_MAX)

city_h1(service, city, state) ==
  clamp_title(service \o " in " \o city \o ", " \o state, TITLE_MAX)

-----------------------------------------------------------------------------
(* HTML BUILDING BLOCKS                                                    *)
(*                                                                         *)
(* An element is a record: its tag, its attributes in source order, the    *)
(* character data it directly contains as emitted (after esc), and the     *)
(* closing tag as emitted.  A document is the sequence of its elements in  *)
(* document order.  Template text outside ASCII is transliterated          *)
(* (en dash "-", curly quotes "'", copyright sign "(c)").                  *)

El(tag, attrs, txt) ==
  [tag |-> tag, attrs |-> attrs, text |-> txt, close |-> "</" \o tag \o ">"]

Void(tag, attrs) ==
  [tag |-> tag, attrs |-> attrs, text |-> "", close |-> ""]

\* The stylesheet text, which no operation inspects.
CSS == ":root{--bg:#fafaf9; ...}"

nav_item(current, href, label, key) ==
  El("a",
     <<<<"href", esc(href)>>>> \o
       (IF current = key THEN <<<<"aria-current", "page">>>> ELSE <<>>),
     esc(label))

nav_html(current) ==
  << El("nav", <<<<"class", "nav">>, <<"aria-label", "Primary navigation">>>>, ""),
     nav_item(current, "/", "Home", "home"),
     nav_item(current, "/cost/", "Cost", "cost"),
     nav_item(current, "/how-to/", "How-To", "howto"),
     El("a", <<<<"class", "btn">>, <<"href", esc(cta_href)>>>>, esc(cta_text)) >>

base_html(title, canonical_path, description, current_nav, body) ==
  << Void("!doctype", <<<<"html", "">>>>),
     El("html", <<<<"lang", "en">>>>, ""),
     El("head", <<>>, ""),
     Void("meta", <<<<"charset", "utf-8">>>>),
     Void("meta", <<<<"name", "viewport">>,
                    <<"content", "width=device-width, initial-scale=1">>>>),
     El("title", <<>>, esc(title)),
     Void("meta", <<<<"name", "description">>, <<"content", esc(description)>>>>),
     Void("link", <<<<"rel", "canonical">>, <<"href", esc(canonical_path)>>>>),
     El("style", <<>>, CSS),
     El("body", <<>>, ""),
     El("div", <<<<"class", "topbar">>>>, ""),
     El("div", <<<<"class", "topbar-inner">>>>, ""),
     El("a", <<<<"class", "brand">>, <<"href", "/">>>>, esc(BRAND_NAME)) >>
  \o nav_html(current_nav)
  \o body

\* header_block with the <h1> emitted twice.
header_block_twice(h1, sub) ==
  << El("header", <<>>, ""),
     El("div", <<<<"class", "hero">>>>, ""),
     El("h1", <<>>, esc(h1)),
     El("h1", <<>>, esc(h1)) >>

header_block(h1, sub) ==
  << El("header", <<>>, ""),
     El("div", <<<<"class", "hero">>>>, ""),
     El("h1", <<>>, esc(h1)) >>

footer_block ==
  << El("footer", <<>>, ""),
     El("div", <<<<"class", "footer-inner">>>>, ""),
     El("h2", <<>>, "Next steps"),
     El("p", <<<<"class", "sub">>>>, "Ready to move forward? Request a free quote."),
     El("div", <<>>, ""),
     El("a", <<<<"class", "btn">>, <<"href", esc(cta_href)>>>>, esc(cta_text)),
     El("div", <<<<"class", "footer-links">>>>, ""),
     El("a", <<<<"href", "/">>>>, "Home"),
     El("a", <<<<"href", "/cost/">>>>, "Cost"),
     El("a", <<<<"href", "/how-to/">>>>, "How-To"),
     El("div", <<<<"class", "small">>>>,
        "(c) " \o esc(BRAND_NAME) \o ". All rights reserved.") >>

page_shell(h1, sub, inner_html) ==
  header_block(h1, sub)
  \o << El("main", <<>>, ""),
        El("section", <<<<"class", "card">>>>, ""),
        El("div", <<<<"class", "img">>>>, ""),
        Void("img", <<<<"src", esc("/" \o image_filename)>>,
                      <<"alt", "Service image">>, <<"loading", "lazy">>>>) >>
  \o inner_html
  \o footer_block

-----------------------------------------------------------------------------
(* CONTENT SECTIONS                                                        *)

\* One <h2>, <p> pair of a section template; the table index k is the
\* Python index plus one.
Section(h2s, ps, k, close) ==
  << El("h2", <<>>, esc(h2s[k])),
     [El("p", <<>>, esc(ps[k])) EXCEPT !.close = close] >>

\* The template names the indices 0..5 one by one and closes each paragraph
\* with "</</p>"; local_line is formatted into a span that the template
\* never interpolates.
shared_sections_html(local_line) ==
  Section(H2_SHARED, P_SHARED, 1, "</</p>")
  \o Section(H2_SHARED, P_SHARED, 2, "</</p>")
  \o Section(H2_SHARED, P_SHARED, 3, "</</p>")
  \o Section(H2_SHARED, P_SHARED, 4, "</</p>")
  \o Section(H2_SHARED, P_SHARED, 5, "</</p>")
  \o Section(H2_SHARED, P_SHARED, 6, "</</p>")

cost_sections_html ==
  Section(H2_COST, P_COST, 1, "</p>")
  \o Section(H2_COST, P_COST, 2, "</p>")
  \o Section(H2_COST, P_COST, 3, "</p>")
  \o Section(H2_COST, P_COST, 4, "</p>")
  \o Section(H2_COST, P_COST, 5, "</p>")
  \o Section(H2_COST, P_COST, 6, "</p>")
  \o << Void("hr", <<>>),
        El("p", <<<<"class", "muted">>>>,
           "Typical installed range (single nest, many homes): $"
             \o ToString(cost_low) \o "-$" \o ToString(cost_high)
             \o ". Final pricing depends on access, nest location, and time on site.") >>

howto_sections_html ==
  Section(H2_HOWTO, P_HOWTO, 1, "</p>")
  \o Section(H2_HOWTO, P_HOWTO, 2, "</p>")
  \o Section(H2_HOWTO, P_HOWTO, 3, "</p>")
  \o Section(H2_HOWTO, P_HOWTO, 4, "</p>")
  \o Section(H2_HOWTO, P_HOWTO, 5, "</p>")
  \o Section(H2_HOWTO, P_HOWTO, 6, "</p>")

city_cost_callout_html(city, state) ==
  << El("div", <<<<"class", "callout">>, <<"role", "note">>,
                 <<"aria-label", "Typical cost range">>>>, ""),
     El("div", <<<<"class", "callout-title">>>>, ""),
     El("span", <<<<"class", "badge">>>>, "Typical range"),
     El("span", <<>>,
        "$" \o ToString(cost_low) \o "-$" \o ToString(cost_high) \o " for one nest"),
     El("p", <<>>,
        "In " \o esc(city) \o ", " \o esc(state)
          \o ", most pricing comes down to access and where the nest is located. "
          \o "If you want a fast, no-pressure estimate, use the '"
          \o esc(cta_text) \o "' button above.") >>

-----------------------------------------------------------------------------
(* PAGE FACTORY                                                            *)

make_page(h1, canonical, description, nav_key, sub, inner) ==
  LET h1c == clamp_title(h1, TITLE_MAX)
      title == h1c
  IN  base_html(title, canonical, clamp_title(description, DESCRIPTION_MAX),
                nav_key, page_shell(h1c, sub, inner))

\* The description arguments the four page functions pass to make_page.
home_description == "Straight answers on wasp nest removal and wasp control."

cost_description == "Typical wasp nest removal cost ranges and what changes pricing."

howto_description == "Clear steps for dealing with a wasp nest without making it worse."

city_description(city, state) ==
  "Wasp nest removal and wasp control guide with local context for "
    \o city \o ", " \o state \o "."

\* The <li><a> pairs of the city grid, one per entry of CITIES.
city_links ==
  [k \in 1..(2 * Len(roster)) |->
     LET city == roster[(k + 1) \div 2][1]
         state == roster[(k + 1) \div 2][2]
     IN  IF k % 2 = 1
           THEN El("li", <<>>, "")
           ELSE El("a", <<<<"href", esc("/" \o city_state_slug(city, state) \o "/")>>>>,
                   esc(city) \o ", " \o esc(state))]

homepage_html ==
  LET h1 == H1_TITLE
      inner ==
        shared_sections_html("")
        \o << Void("hr", <<>>),
              El("h2", <<>>, "Choose your city"),
              El("p", <<<<"class", "muted">>>>,
                 "Select a city page for the same guide with a light local line."),
              El("ul", <<<<"class", "city-grid">>>>, "") >>
        \o city_links
        \o << Void("hr", <<>>),
              El("p", <<<<"class", "muted">>>>, "Also available:  and ."),
              El("a", <<<<"href", "/cost/">>>>, "Wasp Nest Removal Cost"),
              El("a", <<<<"href", "/how-to/">>>>, "How to Get Rid of Wasp Nest") >>
  IN  make_page(h1, "/",
                home_description,
                "home",
                "How removal works, what prevents repeat activity, and when to call help.",
                inner)

city_page_html(city, state) ==
  LET inner ==
        shared_sections_html("Serving " \o city \o ", " \o state \o ".")
        \o city_cost_callout_html(city, state)
        \o << Void("hr", <<>>),
              El("h2", <<>>, "Wasp Nest Removal Cost"),
              El("p", <<<<"class", "muted">>>>,
                 "Typical installed range for one nest often falls around $"
                   \o ToString(cost_low) \o "-$" \o ToString(cost_high)
                   \o ". Access and nest location drive most pricing. See the  for details."),
              El("a", <<<<"href", "/cost/">>>>, "cost page") >>
  IN  make_page(city_h1(H1_TITLE, city, state),
                "/" \o city_state_slug(city, state) \o "/",
                city_description(city, state),
                "home",
                "Same core guide, plus a quick local note and a typical cost range.",
                inner)

cost_page_html ==
  make_page(COST_TITLE, "/cost/",
            cost_description,
            "cost",
            "Simple ranges and the factors that usually move the price.",
            cost_sections_html)

howto_page_html ==
  make_page(HOWTO_TITLE, "/how-to/",
            howto_description,
            "howto",
            "A practical guide that prioritizes safety and reduces repeat activity.",
            howto_sections_html)

-----------------------------------------------------------------------------
(* ROBOTS + SITEMAP                                                        *)

\* robots_txt with a comment line that numbers the build.
robots_txt_stamped ==
  << El("line", <<>>, "User-agent: *"),
     El("line", <<>>, "Allow: /"),
     El("line", <<>>, "Sitemap: /sitemap.xml"),
     El("line", <<>>, "# build " \o ToString(run)) >>

robots_txt ==
  << El("line", <<>>, "User-agent: *"),
     El("line", <<>>, "Allow: /"),
     El("line", <<>>, "Sitemap: /sitemap.xml") >>

\* One <url> and one <loc> element per entry of urls, in order; the path is
\* interpolated without esc.
sitemap_xml(urls) ==
  << Void("?xml", <<<<"version", "1.0">>, <<"encoding", "UTF-8">>>>),
     El("urlset", <<<<"xmlns", "http://www.sitemaps.org/schemas/sitemap/0.9">>>>, "") >>
  \o [k \in 1..(2 * Len(urls)) |->
        IF k % 2 = 1 THEN El("url", <<>>, "") ELSE El("loc", <<>>, urls[k \div 2])]

-----------------------------------------------------------------------------
(* MAIN                                                                    *)
(*                                                                         *)
(* Paths are relative to CONFIG.output_dir.  A step may raise (a           *)
(* filesystem error, or the missing image); main() catches nothing, so the *)
(* run ends there.                                                         *)

\* What a file left by something else than this run holds.
StaleContent == << El("stale", <<>>, "") >>

\* The bytes of picture.png next to generate.py.
ImageBytes == << El("bytes", <<>>, image_filename) >>

StaleFiles == {"index.html", "old-page/index.html", "notes.txt"}

NoFiles == [p \in {} |-> StaleContent]

\* reset_output_dir that only creates the directory and removes nothing.
reset_output_dir_keep(existing) == existing

\* shutil.rmtree followed by mkdir: the directory is left empty.
reset_output_dir(existing) == NoFiles

\* main()'s urls without the how-to page.
main_urls_no_howto(cities) ==
  <<"/", "/cost/">>
  \o [k \in 1..Len(cities) |-> "/" \o city_state_slug(cities[k][1], cities[k][2]) \o "/"]

main_urls(cities) ==
  <<"/", "/cost/", "/how-to/">>
  \o [k \in 1..Len(cities) |-> "/" \o city_state_slug(cities[k][1], cities[k][2]) \o "/"]

city_out_path(city, state) == city_state_slug(city, state) \o "/index.html"

\* A write that leaves an existing file as it is.
WithFile_keep_existing(files, out_path, content) ==
  [p \in DOMAIN files \cup {out_path} |->
     IF p \in DOMAIN files THEN files[p] ELSE content]

\* Path.write_text after mkdir(parents=True): the file is created or
\* replaced.
WithFile(files, out_path, content) ==
  [p \in DOMAIN files \cup {out_path} |-> IF p = out_path THEN content ELSE files[p]]

write_text(out_path, content) == fs' = WithFile(fs, out_path, content)

\* The file the step at pc writes.
StepPath ==
  CASE pc = "copy"    -> image_filename
    [] pc = "home"    -> "index.html"
    [] pc = "cost"    -> "cost/index.html"
    [] pc = "howto"   -> "how-to/index.html"
    [] pc = "city"    -> city_out_path(roster[i][1], roster[i][2])
    [] pc = "robots"  -> "robots.txt"
    [] pc = "sitemap" -> "sitemap.xml"

AfterCity(n) == IF n <= Len(roster) THEN "city" ELSE "robots"

ResetOutputDir ==
  /\ pc = "reset"
  /\ fs' = reset_output_dir(fs)
  /\ outExists' = TRUE
  /\ pc' = "copy"
  /\ UNCHANGED <<i, roster, imagePresent, fnVars, runVars>>

\* What rmtree can leave of paths when it raises part-way: the entries go
\* one by one in the order of the directory listing.  The outcomes examined
\* are those with at most one file gone or at most one file left, which
\* for up to three files are all of them.
KeptAfterFailure(paths) ==
  {paths} \cup {paths \ {p} : p \in paths} \cup {{p} : p \in paths} \cup {{}}

\* rmtree raises part-way, or mkdir raises after rmtree.
ResetFails ==
  /\ pc = "reset"
  /\ \/ /\ outExists
        /\ \E kept \in KeptAfterFailure(DOMAIN fs) : fs' = [p \in kept |-> fs[p]]
        /\ outExists' = TRUE
     \/ /\ fs' = NoFiles
        /\ outExists' = FALSE
  /\ pc' = "failed"
  /\ UNCHANGED <<i, roster, imagePresent, fnVars, runVars>>

CopySiteImage ==
  /\ pc = "copy"
  /\ imagePresent
  /\ write_text(image_filename, ImageBytes)
  /\ pc' = "home"
  /\ UNCHANGED <<i, roster, outExists, imagePresent, fnVars, runVars>>

\* copy_site_image opening the target before it looks for the source: an
\* empty picture.png is left behind.
CopySiteImageMissing_touch ==
  /\ pc = "copy"
  /\ ~imagePresent
  /\ write_text(image_filename, <<>>)
  /\ pc' = "failed"
  /\ UNCHANGED <<i, roster, outExists, imagePresent, fnVars, runVars>>

\* raise FileNotFoundError
CopySiteImageMissing ==
  /\ pc = "copy"
  /\ ~imagePresent
  /\ pc' = "failed"
  /\ UNCHANGED <<i, roster, outExists, fs, imagePresent, fnVars, runVars>>

WriteHome ==
  /\ pc = "home"
  /\ write_text("index.html", homepage_html)
  /\ pc' = "cost"
  /\ UNCHANGED <<i, roster, outExists, imagePresent, fnVars, runVars>>

WriteCost ==
  /\ pc = "cost"
  /\ write_text("cost/index.html", cost_page_html)
  /\ pc' = "howto"
  /\ UNCHANGED <<i, roster, outExists, imagePresent, fnVars, runVars>>

WriteHowTo ==
  /\ pc = "howto"
  /\ write_text("how-to/index.html", howto_page_html)
  /\ i' = 1
  /\ pc' = AfterCity(1)
  /\ UNCHANGED <<roster, outExists, imagePresent, fnVars, runVars>>

WriteCity ==
  /\ pc = "city"
  /\ write_text(city_out_path(roster[i][1], roster[i][2]),
                city_page_html(roster[i][1], roster[i][2]))
  /\ i' = i + 1
  /\ pc' = AfterCity(i + 1)
  /\ UNCHANGED <<roster, outExists, imagePresent, fnVars, runVars>>

WriteRobots ==
  /\ pc = "robots"
  /\ write_text("robots.txt", robots_txt)
  /\ pc' = "sitemap"
  /\ UNCHANGED <<i, roster, outExists, imagePresent, fnVars, runVars>>

WriteSitemap ==
  /\ pc = "sitemap"
  /\ write_text("sitemap.xml", sitemap_xml(main_urls(roster)))
  /\ pc' = "done"
  /\ UNCHANGED <<i, roster, outExists, imagePresent, fnVars, runVars>>

\* A write error in the city loop that is caught and skipped: the loop goes
\* on with the next entry.
WriteFails_swallowed ==
  /\ pc \in {"copy", "home", "cost", "howto", "city", "robots", "sitemap"}
  /\ pc = "copy" => imagePresent
  /\ fs' = fs
  /\ pc' = IF pc = "city" THEN AfterCity(i + 1) ELSE "failed"
  /\ i' = IF pc = "city" THEN i + 1 ELSE i
  /\ UNCHANGED <<roster, outExists, imagePresent, fnVars, runVars>>

\* The copy or the write raises: nothing was written, or the file was
\* opened, and so created or emptied, before the error.
WriteFails ==
  /\ pc \in {"copy", "home", "cost", "howto", "city", "robots", "sitemap"}
  /\ pc = "copy" => imagePresent
  /\ \/ fs' = fs
     \/ write_text(StepPath, <<>>)
  /\ pc' = "failed"
  /\ UNCHANGED <<i, roster, outExists, imagePresent, fnVars, runVars>>

InitBuild ==
  /\ pc = "reset"
  /\ i = 0
  /\ outExists \in BOOLEAN
  /\ fs \in IF outExists
              THEN {[p \in S |-> StaleContent] : S \in SUBSET StaleFiles}
              ELSE {NoFiles}
  /\ imagePresent \in BOOLEAN
  /\ run = 1
  /\ prevOut = NoFiles
  /\ text = ""
  /\ maxc = 0
  /\ result = <<>>

\* The program as it stands: main() iterates the compiled-in CITIES.
Init ==
  /\ roster = CITIES
  /\ InitBuild

\* The end-to-end scenario: the same build over a one-city roster as well.
TroyRoster == << <<"Troy", "NY">> >>

Rosters == {CITIES, TroyRoster}

InitRoster ==
  /\ roster \in Rosters
  /\ InitBuild

Next ==
  \/ ResetOutputDir
  \/ ResetFails
  \/ CopySiteImage
  \/ CopySiteImageMissing
  \/ WriteHome
  \/ WriteCost
  \/ WriteHowTo
  \/ WriteCity
  \/ WriteRobots
  \/ WriteSitemap
  \/ WriteFails

Spec == Init /\ [][Next]_vars

SpecRoster == InitRoster /\ [][Next]_vars

\* Rosters in which two entries have the same slug: a pair listed twice, two
\* different cities, and two different cities with another city between.
DuplicateRoster == << <<"Troy", "NY">>, <<"Troy", "NY">> >>

SameSlugRoster == << <<"St. Paul", "MN">>, <<"St Paul", "MN">> >>

ApartRoster == << <<"St. Paul", "MN">>, <<"Troy", "NY">>, <<"St Paul", "MN">> >>

CollidingRosters == {DuplicateRoster, SameSlugRoster, ApartRoster}

InitCollide ==
  /\ roster \in CollidingRosters
  /\ InitBuild

SpecCollide == InitCollide /\ [][Next]_vars

\* main() is run again over the directory the finished run left, with the
\* same roster, tables, configuration and image.
MaxRuns == 2

Rerun ==
  /\ pc = "done"
  /\ run < MaxRuns
  /\ pc' = "reset"
  /\ i' = 0
  /\ run' = run + 1
  /\ prevOut' = fs
  /\ UNCHANGED <<roster, outExists, fs, imagePresent, fnVars>>

NextTwice == Next \/ Rerun

SpecTwice == InitRoster /\ [][NextTwice]_vars

-----------------------------------------------------------------------------
(* The pure helpers on their own: the argument is drawn in the initial     *)
(* state, the action is the call.                                          *)

MaxTextLen == 5

MaxChars == 6

MaxSlugLen == 4

ClampAlphabet == {"a", " "}

SlugAlphabet == {"a", "B", "1", " ", "&", "-", "."}

RECURSIVE Strings(_, _)
Strings(alphabet, n) ==
  IF n = 0 THEN {""}
  ELSE LET shorter == Strings(alphabet, n - 1)
       IN  shorter \cup {s \o c : s \in shorter, c \in alphabet}

ClampTexts == Strings(ClampAlphabet, MaxTextLen) \cup {"12345", "123456"}

SlugTexts == Strings(SlugAlphabet, MaxSlugLen) \cup {"St. Paul", "Washington & Lee"}

IdleBuild ==
  /\ pc = "idle"
  /\ i = 0
  /\ roster = <<>>
  /\ outExists = FALSE
  /\ fs = <<>>
  /\ imagePresent = FALSE
  /\ run = 1
  /\ prevOut = <<>>

InitClamp ==
  /\ IdleBuild
  /\ text \in ClampTexts
  /\ maxc \in 0..MaxChars
  /\ result = <<>>

ClampCall ==
  /\ pc = "idle"
  /\ result = <<>>
  /\ result' = <<clamp_title(text, maxc)>>
  /\ UNCHANGED <<buildVars, text, maxc>>

NextClamp == ClampCall

SpecClamp == InitClamp /\ [][NextClamp]_vars

InitSlug ==
  /\ IdleBuild
  /\ text \in SlugTexts
  /\ maxc = 0
  /\ result = <<>>

SlugCall ==
  /\ pc = "idle"
  /\ result = <<>>
  /\ result' = <<slugify(text)>>
  /\ UNCHANGED <<buildVars, text, maxc>>

NextSlug == SlugCall

SpecSlug == InitSlug /\ [][NextSlug]_vars

-----------------------------------------------------------------------------
(* C3: clamp_title                                                         *)

\* b is text with nothing but trailing whitespace removed from its first
\* n characters.
IsTrimmedPrefix(b, t, n) ==
  /\ Len(b) <= n
  /\ b = SubSeq(t, 1, Len(b))
  /\ Len(b) > 0 => CharAt(b, Len(b)) \notin Whitespace
  /\ \A k \in (Len(b) + 1)..n : CharAt(t, k) \in Whitespace

ClampContract(t, m, r) ==
  /\ Len(t) <= m => r = t
  /\ Len(t) > m =>
       /\ Len(r) >= 1
       /\ CharAt(r, Len(r)) = ELLIPSIS
       /\ IsTrimmedPrefix(SubSeq(r, 1, Len(r) - 1), t, m - 1)
       /\ Len(r) <= m

\* C3 as stated: for every text and every max_chars >= 0 the result is the
\* text itself when it fits, and otherwise its first max_chars - 1
\* characters without trailing whitespace plus one ellipsis, at most
\* max_chars characters long.
C3_Original == result # <<>> => ClampContract(text, maxc, result[1])

\* C3 amended: the same for every max_chars >= 1.  With max_chars = 0 a
\* non-empty text loses only its last character and comes back longer than
\* the limit.
C3_Clamp == (result # <<>> /\ maxc >= 1) => ClampContract(text, maxc, result[1])

\* A text one character over the limit has been clamped to exactly the limit.
C3_Witness ==
  /\ result # <<>>
  /\ text = "123456"
  /\ maxc = 5
  /\ result[1] = "1234" \o ELLIPSIS

-----------------------------------------------------------------------------
(* C4: slugify                                                             *)

\* The words of s: the maximal runs of letters and digits, lowercased, where
\* every "&" ends the run before it and stands as a word of its own when
\* ampWord is TRUE, and is spelled "and" inside the run it touches when
\* ampWord is FALSE.
RECURSIVE SlugWords(_, _, _, _)
SlugWords(s, k, cur, ampWord) ==
  LET flush == IF cur = "" THEN <<>> ELSE <<cur>>
  IN  IF k > Len(s) THEN flush
      ELSE LET c == LowerChar(CharAt(s, k))
           IN  IF IsSlugChar(c) THEN SlugWords(s, k + 1, cur \o c, ampWord)
               ELSE IF c = "&" /\ ampWord
                 THEN flush \o <<"and">> \o SlugWords(s, k + 1, "", ampWord)
               ELSE IF c = "&" THEN SlugWords(s, k + 1, cur \o "and", ampWord)
               ELSE flush \o SlugWords(s, k + 1, "", ampWord)

RECURSIVE JoinHyphen(_)
JoinHyphen(ws) ==
  IF ws = <<>> THEN ""
  ELSE IF Len(ws) = 1 THEN ws[1]
  ELSE ws[1] \o "-" \o JoinHyphen(Tail(ws))

SlugExamples(t, r) ==
  /\ t = "St. Paul" => r = "st-paul"
  /\ t = "Washington & Lee" => r = "washington-and-lee"
  /\ t = "" => r = ""

\* C4 as stated: slugify lowercases and trims, replaces each "&" by the
\* word "and", turns every maximal run of characters outside [a-z0-9] into
\* one hyphen and strips the hyphens at both ends.
C4_Original ==
  result # <<>> =>
    /\ result[1] = JoinHyphen(SlugWords(text, 1, "", FALSE))
    /\ SlugExamples(text, result[1])

\* C4 amended: slugify replaces each "&" by " and ", the word with a space
\* on either side, so that "and" is always a hyphen-separated word of its
\* own ("a&b" gives "a-and-b"); the rest is as stated.
C4_Slugify ==
  result # <<>> =>
    /\ result[1] = JoinHyphen(SlugWords(text, 1, "", TRUE))
    /\ SlugExamples(text, result[1])

\* An "&" between two letters has been slugged.
C4_Witness ==
  /\ result # <<>>
  /\ text = "a&B"
  /\ result[1] = "a-and-b"

-----------------------------------------------------------------------------
(* Reading the output directory                                            *)

IsDocument(content) == content # <<>> /\ content[1].tag = "!doctype"

\* The pages this run has written in full.  Before the reset the directory
\* holds what earlier runs or other programs left.
Generated ==
  IF pc \in {"idle", "reset"} THEN {}
  ELSE {p \in DOMAIN fs : IsDocument(fs[p])}

StaticPages == {"index.html", "cost/index.html", "how-to/index.html"}

Positions(doc, tag) == {k \in DOMAIN doc : doc[k].tag = tag}

TextsOf(doc, tag) == {doc[k].text : k \in Positions(doc, tag)}

TitleOf(doc) == doc[CHOOSE k \in DOMAIN doc : doc[k].tag = "title"].text

DescriptionOf(doc) ==
  doc[CHOOSE k \in DOMAIN doc :
        doc[k].tag = "meta" /\ doc[k].attrs[1] = <<"name", "description">>].attrs[2][2]

\* What a browser shows for escaped text: each character reference of
\* html.escape stands for one character.
Entities ==
  {<<"&amp;", "&">>, <<"&lt;", "<">>, <<"&gt;", ">">>, <<"&quot;", "\"">>, <<"&#x27;", "'">>}

EntityAt(s, k, e) ==
  /\ k >= 1
  /\ k + Len(e[1]) - 1 <= Len(s)
  /\ SubSeq(s, k, k + Len(e[1]) - 1) = e[1]

unescape(s) ==
  ConcatAll([k \in 1..Len(s) |->
    IF \E e \in Entities : EntityAt(s, k, e)
      THEN (CHOOSE e \in Entities : EntityAt(s, k, e))[2]
    ELSE IF \E e \in Entities : \E j \in (k - Len(e[1]) + 1)..(k - 1) : EntityAt(s, j, e)
      THEN ""
    ELSE CharAt(s, k)])

EndsWith(s, suffix) ==
  /\ Len(s) >= Len(suffix)
  /\ SubSeq(s, Len(s) - Len(suffix) + 1, Len(s)) = suffix

\* The page the step before pc has written, with the untruncated title
\* and description its page function hands to make_page: a set of at most
\* one <<path, title, description>>.
JustWritten ==
  CASE pc = "cost" ->
         {<<"index.html", H1_TITLE, home_description>>}
    [] pc = "howto" ->
         {<<"cost/index.html", COST_TITLE, cost_description>>}
    [] pc \in {"city", "robots"} /\ i = 1 ->
         {<<"how-to/index.html", HOWTO_TITLE, howto_description>>}
    [] pc \in {"city", "robots"} /\ i >= 2 ->
         {<<city_out_path(roster[i - 1][1], roster[i - 1][2]),
            H1_TITLE \o " in " \o roster[i - 1][1] \o ", " \o roster[i - 1][2],
            city_description(roster[i - 1][1], roster[i - 1][2])>>}
    [] OTHER -> {}

-----------------------------------------------------------------------------
(* C1: one <h1>, equal to <title>                                          *)

\* C1: every page the build has written (home, cost, how-to and the city
\* pages) contains exactly one <h1> element, and one <title> whose text is
\* exactly the text of that <h1>.
C1_TitleIsSoleH1 ==
  \A p \in Generated :
    /\ Cardinality(Positions(fs[p], "h1")) = 1
    /\ Cardinality(Positions(fs[p], "title")) = 1
    /\ TextsOf(fs[p], "title") = TextsOf(fs[p], "h1")

\* The three fixed pages and two city pages are written, and the page of a
\* city whose title had to be truncated carries the truncated text in both
\* places.
C1_Witness ==
  /\ pc = "city"
  /\ i = 3
  /\ StaticPages \subseteq Generated
  /\ "los-angeles-ca/index.html" \in Generated
  /\ TextsOf(fs["los-angeles-ca/index.html"], "h1") =
       {"Woodpecker Damage Repair/Wood Siding &amp; EIFS Services in Los Angeles," \o ELLIPSIS}

-----------------------------------------------------------------------------
(* C2: length limits of title and description                              *)

Clamped(shown, raw, limit) ==
  /\ Len(shown) <= limit
  /\ Len(raw) > limit => EndsWith(shown, ELLIPSIS)

\* C2: every page has a title of at most 70 characters and a meta
\* description of at most 155, and where the untruncated text was longer
\* than its limit the emitted text ends with the ellipsis.  Each page is
\* examined in the state its write leads to, against the texts its page
\* function started from; the limits are examined again on all pages of
\* the finished build.
C2_Lengths ==
  /\ \A w \in JustWritten :
       /\ w[1] \in Generated
       /\ Clamped(unescape(TitleOf(fs[w[1]])), w[2], TITLE_MAX)
       /\ Clamped(unescape(DescriptionOf(fs[w[1]])), w[3], DESCRIPTION_MAX)
  /\ pc = "done" =>
       \A p \in Generated :
         /\ Len(unescape(TitleOf(fs[p]))) <= TITLE_MAX
         /\ Len(unescape(DescriptionOf(fs[p]))) <= DESCRIPTION_MAX

\* The page just written is that of a city whose untruncated title has 72
\* characters; its title has exactly 70 and ends with the ellipsis.
C2_Witness ==
  /\ pc = "city"
  /\ i >= 2
  /\ roster[i - 1] = <<"Philadelphia", "PA">>
  /\ \E w \in JustWritten : w[1] = "philadelphia-pa/index.html" /\ Len(w[2]) = 72
  /\ Len(unescape(TitleOf(fs["philadelphia-pa/index.html"]))) = 70
  /\ EndsWith(TitleOf(fs["philadelphia-pa/index.html"]), "Philadelphia," \o ELLIPSIS)

-----------------------------------------------------------------------------
(* C5, C6: the city paths of CITIES                                        *)

\* The directories of the city pages in the output directory.
CityDirs ==
  IF pc \in {"idle", "reset"} THEN {}
  ELSE {SubSeq(p, 1, Len(p) - Len("/index.html")) :
          p \in {q \in DOMAIN fs \ StaticPages : EndsWith(q, "/index.html")}}

WellFormedSlug(s) ==
  /\ Len(s) > 0
  /\ \A k \in 1..Len(s) : CharAt(s, k) \in SlugChars \cup {"-"}
  /\ \A k \in 1..(Len(s) - 1) : ~(CharAt(s, k) = "-" /\ CharAt(s, k + 1) = "-")
  /\ CharAt(s, 1) # "-"
  /\ CharAt(s, Len(s)) # "-"

\* C5: the directory name city_state_slug gives every entry of CITIES is
\* non-empty, made of lowercase letters, digits and hyphens only, has no two
\* hyphens in a row and neither starts nor ends with a hyphen.
C5_SlugsWellFormed ==
  /\ \A d \in CityDirs : WellFormedSlug(d)
  /\ (pc \in {"city", "robots", "sitemap", "done", "failed"} /\ i >= 2) =>
       city_state_slug(roster[i - 1][1], roster[i - 1][2]) \in CityDirs

\* City names with a period, with two words and with a hyphen have been
\* slugged and written.
C5_Witness ==
  /\ pc = "city"
  /\ i >= 2
  /\ roster[i - 1] = <<"Winston-Salem", "NC">>
  /\ {"st-petersburg-fl", "winston-salem-nc", "new-york-ny"} \subseteq CityDirs

\* C6: no two positions of CITIES yield the same city path: every city
\* page the loop writes goes to a path of its own, so after k entries the
\* output directory holds k city pages.
C6_PathsUnique ==
  pc \in {"city", "robots", "sitemap", "done"} => Cardinality(CityDirs) = i - 1

\* The second Washington of the roster has just been written, and both
\* Washingtons have their page.
C6_Witness ==
  /\ pc = "city"
  /\ i >= 2
  /\ roster[i - 1] = <<"Washington", "NC">>
  /\ roster[9] = <<"Washington", "DC">>
  /\ {"washington-dc", "washington-nc"} \subseteq CityDirs
  /\ Cardinality(CityDirs) = i - 1

-----------------------------------------------------------------------------
(* C7, C8: the heading sets                                                *)

Headings(doc) == TextsOf(doc, "h2")

\* C7 as stated: the set of heading texts on the home page equals the set
\* of heading texts on every city page.
C7_HeadingParity ==
  "index.html" \in Generated =>
    \A p \in Generated \ StaticPages :
      Headings(fs[p]) = Headings(fs["index.html"])

\* C8 as stated: no heading text occurs on more than one of the cost page,
\* the how-to page and the shared set of the home and city pages.
C8_HeadingsDisjoint ==
  StaticPages \subseteq Generated =>
    /\ Headings(fs["cost/index.html"]) \cap Headings(fs["how-to/index.html"]) = {}
    /\ Headings(fs["cost/index.html"]) \cap Headings(fs["index.html"]) = {}
    /\ Headings(fs["how-to/index.html"]) \cap Headings(fs["index.html"]) = {}

-----------------------------------------------------------------------------
(* C9, C10: the files of a finished build                                  *)

LocTexts(doc) ==
  LET locs == SelectSeq(doc, LAMBDA e : e.tag = "loc")
  IN  [k \in 1..Len(locs) |-> locs[k].text]

\* C9: the sitemap of a finished build holds one <url><loc> element per
\* page, 3 + |roster| of them: "/", "/cost/", "/how-to/", then the path of
\* every roster entry in roster order; for the roster of Troy, NY these
\* are /, /cost/, /how-to/, /troy-ny/.
C9_Sitemap ==
  pc = "done" =>
    LET sm == fs["sitemap.xml"]
        locs == LocTexts(sm)
    IN  /\ Len(locs) = 3 + Len(roster)
        /\ Cardinality(Positions(sm, "url")) = Len(locs)
        /\ \A k \in Positions(sm, "loc") : sm[k - 1].tag = "url"
        /\ SubSeq(locs, 1, 3) = <<"/", "/cost/", "/how-to/">>
        /\ \A k \in 1..Len(roster) :
             locs[3 + k] = "/" \o slugify(roster[k][1]) \o "-" \o slugify(roster[k][2]) \o "/"
        /\ roster = TroyRoster => locs = <<"/", "/cost/", "/how-to/", "/troy-ny/">>

\* The one-city build is through and its sitemap has four entries.
C9_Witness ==
  /\ pc = "done"
  /\ roster = TroyRoster
  /\ Len(LocTexts(fs["sitemap.xml"])) = 4

\* C10: whatever the output directory held before, after a finished build
\* it holds exactly index.html, cost/index.html, how-to/index.html, one
\* <slug>/index.html per roster entry, robots.txt, sitemap.xml and the
\* image, and none of them is a file from before the run; for a one-city
\* roster that is 4 HTML files, robots.txt, sitemap.xml and the image.
C10_OutputLayout ==
  pc = "done" =>
    /\ DOMAIN fs =
         StaticPages \cup {"robots.txt", "sitemap.xml", image_filename}
         \cup {slugify(roster[k][1]) \o "-" \o slugify(roster[k][2]) \o "/index.html" :
                 k \in 1..Len(roster)}
    /\ \A p \in DOMAIN fs : fs[p] # StaleContent
    /\ StaticPages \subseteq Generated
    /\ \A d \in CityDirs : d \o "/index.html" \in Generated
    /\ Len(roster) = 1 =>
         /\ Cardinality({p \in DOMAIN fs : EndsWith(p, ".html")}) = 4
         /\ Cardinality(DOMAIN fs) = 7

\* The one-city build is through and has left its seven files, the page
\* at index.html being the one this run wrote.
C10_Witness ==
  /\ pc = "done"
  /\ Len(roster) = 1
  /\ DOMAIN fs = {"index.html", "cost/index.html", "how-to/index.html",
                  "troy-ny/index.html", "robots.txt", "sitemap.xml", "picture.png"}
  /\ fs[image_filename] = ImageBytes
  /\ IsDocument(fs["index.html"])

-----------------------------------------------------------------------------
(* C11: the missing image                                                  *)

\* C11: when picture.png is absent, the step after the reset raises and the
\* run ends there, with the output directory existing and empty: what it
\* held before is gone and neither a page nor robots.txt, sitemap.xml or
\* the image has been written.  No step follows a failure.
C11_MissingImage ==
  [][/\ (pc = "copy" /\ ~imagePresent) =>
          /\ pc' = "failed"
          /\ outExists'
          /\ DOMAIN fs' = {}
     /\ pc # "failed"]_vars

\* The run has failed without the image, over an existing, empty directory.
C11_Witness ==
  /\ pc = "failed"
  /\ ~imagePresent
  /\ outExists
  /\ DOMAIN fs = {}
  /\ i = 0

-----------------------------------------------------------------------------
(* C12: building twice                                                     *)

\* C12: a run of the build over the directory a finished run left, with the
\* same inputs, ends with exactly the files the run before it left, each
\* with the same content.
C12_Idempotent ==
  (pc = "done" /\ run >= 2) =>
    /\ DOMAIN fs = DOMAIN prevOut
    /\ \A p \in DOMAIN fs : fs[p] = prevOut[p]

\* The second build of the one-city site is through, over the seven files
\* of the first.
C12_Witness ==
  /\ pc = "done"
  /\ run = 2
  /\ Len(roster) = 1
  /\ Cardinality(DOMAIN prevOut) = 7
  /\ IsDocument(prevOut["troy-ny/index.html"])
  /\ IsDocument(fs["troy-ny/index.html"])

-----------------------------------------------------------------------------
(* C13: the section generators against their tables                        *)

\* The (heading, paragraph) pairs of a table as they are to appear.
TablePairs(h2s, ps) == [k \in 1..Len(h2s) |-> <<esc(h2s[k]), esc(ps[k])>>]

\* The pairs a document shows for a table: every <h2> that carries one of
\* the table's headings, in document order, with the text of the <p> that
\* follows it immediately ("" when no <p> follows).
RenderedPairs(doc, h2s) ==
  LET headings == {esc(h2s[k]) : k \in 1..Len(h2s)}
      at == SelectSeq([k \in 1..Len(doc) |-> k],
                      LAMBDA k : doc[k].tag = "h2" /\ doc[k].text \in headings)
  IN  [n \in 1..Len(at) |->
         <<doc[at[n]].text,
           IF at[n] < Len(doc) /\ doc[at[n] + 1].tag = "p"
             THEN doc[at[n] + 1].text ELSE "">>]

\* C13 as stated: each of the three section generators renders every
\* (heading, paragraph) pair of its table exactly once, the heading
\* immediately followed by its paragraph, in table order, none omitted.
C13_SectionsComplete ==
  /\ "index.html" \in Generated =>
       RenderedPairs(fs["index.html"], H2_SHARED) = TablePairs(H2_SHARED, P_SHARED)
  /\ "cost/index.html" \in Generated =>
       RenderedPairs(fs["cost/index.html"], H2_COST) = TablePairs(H2_COST, P_COST)
  /\ "how-to/index.html" \in Generated =>
       RenderedPairs(fs["how-to/index.html"], H2_HOWTO) = TablePairs(H2_HOWTO, P_HOWTO)
  /\ \A w \in JustWritten :
       RenderedPairs(fs[w[1]], IF w[1] = "cost/index.html" THEN H2_COST
                               ELSE IF w[1] = "how-to/index.html" THEN H2_HOWTO
                               ELSE H2_SHARED)
         = (IF w[1] = "cost/index.html" THEN TablePairs(H2_COST, P_COST)
            ELSE IF w[1] = "how-to/index.html" THEN TablePairs(H2_HOWTO, P_HOWTO)
            ELSE TablePairs(H2_SHARED, P_SHARED))

-----------------------------------------------------------------------------
(* C14: the order of the steps, and fail-fast                              *)

\* The file each step is to write; n is the roster position of the city
\* step.
OrderFile(step, n) ==
  CASE step = "copy"    -> "picture.png"
    [] step = "home"    -> "index.html"
    [] step = "cost"    -> "cost/index.html"
    [] step = "howto"   -> "how-to/index.html"
    [] step = "city"    -> slugify(roster[n][1]) \o "-" \o slugify(roster[n][2])
                             \o "/index.html"
    [] step = "robots"  -> "robots.txt"
    [] step = "sitemap" -> "sitemap.xml"

\* The files a step has created or changed.
Changed == {p \in DOMAIN fs' : p \notin DOMAIN fs \/ fs'[p] # fs[p]}

\* The step that follows a successful step, in the fixed order.
FollowsInOrder ==
  \/ pc = "reset" /\ pc' = "copy"
  \/ pc = "copy" /\ pc' = "home"
  \/ pc = "home" /\ pc' = "cost"
  \/ pc = "cost" /\ pc' = "howto"
  \/ pc = "howto" /\ i' = 1 /\ pc' = (IF Len(roster) >= 1 THEN "city" ELSE "robots")
  \/ pc = "city" /\ i' = i + 1 /\ pc' = (IF i < Len(roster) THEN "city" ELSE "robots")
  \/ pc = "robots" /\ pc' = "sitemap"
  \/ pc = "sitemap" /\ pc' = "done"

-----------------------------------------------------------------------------
(* C15: roster entries with the same slug                                  *)

\* The last of the first n roster entries that is written to out_path.
LastEntryAt(out_path, n) ==
  CHOOSE j \in 1..n :
    /\ city_out_path(roster[j][1], roster[j][2]) = out_path
    /\ \A k \in (j + 1)..n : city_out_path(roster[k][1], roster[k][2]) # out_path

\* C15: in the build of a roster in which two entries have the same slug,
\* once the first n entries are written, the file of each of them holds the
\* page of the last of these entries that has its path; the build goes on
\* to robots.txt and sitemap.xml with all entries written.
C15_LastWriteWins ==
  /\ pc \in {"city", "robots", "sitemap", "done"} =>
       \A k \in 1..(i - 1) :
         LET out_path == city_out_path(roster[k][1], roster[k][2])
             last == LastEntryAt(out_path, i - 1)
         IN /\ out_path \in DOMAIN fs
            /\ fs[out_path] = city_page_html(roster[last][1], roster[last][2])
  /\ pc \in {"robots", "sitemap", "done"} => i = Len(roster) + 1

\* The build of two different cities with one slug is through: there is one
\* city directory, and its page is the page of the second entry, which is
\* not the page of the first.
C15_Witness ==
  /\ pc = "done"
  /\ roster = SameSlugRoster
  /\ CityDirs = {"st-paul-mn"}
  /\ fs["st-paul-mn/index.html"] = city_page_html("St Paul", "MN")
  /\ fs["st-paul-mn/index.html"] # city_page_html("St. Paul", "MN")

-----------------------------------------------------------------------------
(* C16: the titles of the city pages                                       *)

\* The title of the city page of roster entry k before it is clamped.
UnclampedTitle(k) == H1_TITLE \o " in " \o roster[k][1] \o ", " \o roster[k][2]

EntryTitle(k) == city_h1(H1_TITLE, roster[k][1], roster[k][2])

\* The titles of the city pages in the output directory.
CityTitles == {TitleOf(fs[d \o "/index.html"]) : d \in CityDirs}

\* C16 as stated: different entries of CITIES get different titles from
\* city_h1, and no two city pages have the same <title>.
C16_Original ==
  pc \in {"city", "robots", "sitemap", "done"} =>
    /\ Cardinality({EntryTitle(k) : k \in 1..(i - 1)})
         = Cardinality({roster[k] : k \in 1..(i - 1)})
    /\ Cardinality(CityTitles) = Cardinality(CityDirs)

\* C16, amended: the page of every entry of CITIES has the title city_h1
\* gives the entry; another entry gets the same title from city_h1 only if
\* the unclamped titles of both are longer than 70 characters, and another
\* city page has the same <title> only if that title ends with the
\* ellipsis; over the whole of CITIES this leaves three titles fewer than
\* pages.
C16_TitlesDistinctUnlessClamped ==
  /\ (pc \in {"city", "robots"} /\ i >= 2) =>
       LET n == i - 1
           out_path == city_out_path(roster[n][1], roster[n][2])
       IN /\ TitleOf(fs[out_path]) = esc(EntryTitle(n))
          /\ \A k \in 1..(n - 1) :
               (roster[k] # roster[n] /\ EntryTitle(k) = EntryTitle(n)) =>
                 /\ Len(UnclampedTitle(k)) > TITLE_MAX
                 /\ Len(UnclampedTitle(n)) > TITLE_MAX
          /\ \A d \in CityDirs :
               (d \o "/index.html" # out_path
                  /\ TitleOf(fs[d \o "/index.html"]) = TitleOf(fs[out_path])) =>
                 EndsWith(TitleOf(fs[out_path]), ELLIPSIS)
  /\ pc = "done" => Cardinality(CityTitles) = Cardinality(CityDirs) - 3

\* The page of Springfield, IL has just been written with the title the
\* page of Springfield, MO has: the clamp has cut the state off both.
C16_Witness ==
  /\ pc = "city"
  /\ i = 163
  /\ roster[128] = <<"Springfield", "MO">>
  /\ roster[162] = <<"Springfield", "IL">>
  /\ TitleOf(fs["springfield-il/index.html"]) = TitleOf(fs["springfield-mo/index.html"])
  /\ EndsWith(TitleOf(fs["springfield-il/index.html"]), "Springfield," \o ELLIPSIS)
  /\ TitleOf(fs["new-york-ny/index.html"]) # TitleOf(fs["springfield-il/index.html"])

====
